---- MODULE Spec2Model ----
(***************************************************************************)
(* Roommate expense tracker (src/app.py): the record lists kept in the     *)
(* session state, the form handlers that append to and delete from them,   *)
(* and the two calculation functions, calculate_balances and               *)
(* calculate_settlement.                                                   *)
(*                                                                         *)
(* Amounts are Python floats (IEEE 754 binary64, round to nearest, ties to *)
(* even).  A float is held exactly, as a sign and a magnitude counted in   *)
(* steps of 2^-FractionBits; the magnitude is a natural number written in  *)
(* limbs of LimbBits bits, least significant first, because it does not    *)
(* fit the integers of the model checker.  Every operation of the code on  *)
(* floats (+=, -=, /, unary -, <, >, min, round) is computed on the exact  *)
(* values and rounded to MantissaBits significant bits as the hardware     *)
(* does.  The operations are functions, applied to values.  A form amount  *)
(* is a whole number of hundredths (the number inputs step by 0.01),       *)
(* stored as the float nearest to it.                                      *)
(* The date and the notes of a record, which no check and no calculation   *)
(* reads, are left out.                                                    *)
(***************************************************************************)
EXTENDS Integers, Sequences, FiniteSets, TLC

VARIABLES
    expenses,   \* st.session_state.expenses
    payments,   \* st.session_state.payments
    feedback,   \* the message of st.error the last run showed, or "none"
    lastOp,     \* the button the last run handled (history, not in the code)
    sweep       \* the locals of a running calculate_settlement

vars == <<expenses, payments, feedback, lastOp, sweep>>

----------------------------------------------------------------------------
(* Bounds of the model *)

NumRoommates == 3
MaxExpenses == 2
MaxPayments == 2
MaxCents == 1

----------------------------------------------------------------------------
(* Configuration *)

AllRoommates == <<"Safi", "Gandofly", "Lolo", "Jojo", "Body", "Paki">>

\* the roster, in display order (the first NumRoommates names of it)
ROOMMATES == SubSeq(AllRoommates, 1, NumRoommates)

Roster == {ROOMMATES[k] : k \in 1..Len(ROOMMATES)}

----------------------------------------------------------------------------
(* Natural numbers in limbs *)

\* a float of the model is a multiple of 2^-FractionBits
FractionBits == 62

\* the significant bits of a Python float
MantissaBits == 53

LimbBits == 15

LimbBase == 2^LimbBits

\* the naturals in limbs
Limbs == Seq(Nat)

NLimbs == FractionBits \div LimbBits + 2

RECURSIVE NatPow2From(_, _)
NatPow2From(s, k) ==
    IF k > NLimbs THEN <<>>
    ELSE <<IF k = s \div LimbBits + 1 THEN 2^(s % LimbBits) ELSE 0>>
         \o NatPow2From(s, k + 1)

\* 2^s
NatPow2[s \in Int] == NatPow2From(s, 1)

NatZero == NatPow2From(-LimbBits, 1)

RECURSIVE NatAddFrom(_, _, _, _)
NatAddFrom(a, b, k, carry) ==
    IF k > NLimbs THEN <<>>
    ELSE LET t == a[k] + b[k] + carry
         IN  <<t % LimbBase>> \o NatAddFrom(a, b, k + 1, t \div LimbBase)

NatAdd[a \in Limbs, b \in Limbs] == NatAddFrom(a, b, 1, 0)

RECURSIVE NatSubFrom(_, _, _, _)
NatSubFrom(a, b, k, borrow) ==
    IF k > NLimbs THEN <<>>
    ELSE LET t == a[k] - b[k] - borrow
         IN  IF t < 0
             THEN <<t + LimbBase>> \o NatSubFrom(a, b, k + 1, 1)
             ELSE <<t>> \o NatSubFrom(a, b, k + 1, 0)

\* a - b, for a >= b
NatSub[a \in Limbs, b \in Limbs] == NatSubFrom(a, b, 1, 0)

RECURSIVE NatCmpFrom(_, _, _)
NatCmpFrom(a, b, k) ==
    IF k = 0 THEN 0
    ELSE IF a[k] < b[k] THEN -1
    ELSE IF a[k] > b[k] THEN 1
    ELSE NatCmpFrom(a, b, k - 1)

\* -1, 0 or 1 as a is below, equal to or above b
NatCmp[a \in Limbs, b \in Limbs] == NatCmpFrom(a, b, NLimbs)

RECURSIVE NatMulFrom(_, _, _, _)
NatMulFrom(a, m, k, carry) ==
    IF k > NLimbs THEN <<>>
    ELSE LET t == a[k] * m + carry
         IN  <<t % LimbBase>> \o NatMulFrom(a, m, k + 1, t \div LimbBase)

\* a * m, for 0 <= m < LimbBase
NatMulSmall[a \in Limbs, m \in Nat] == NatMulFrom(a, m, 1, 0)

RECURSIVE NatDivFrom(_, _, _, _)
NatDivFrom(a, d, k, rem) ==
    IF k = 0 THEN [q |-> <<>>, r |-> rem]
    ELSE LET t == rem * LimbBase + a[k]
             rest == NatDivFrom(a, d, k - 1, t % d)
         IN  [q |-> Append(rest.q, t \div d), r |-> rest.r]

\* quotient q and remainder r of a by d, for 0 < d < LimbBase
NatDivSmall[a \in Limbs, d \in Nat] == NatDivFrom(a, d, NLimbs, 0)

RECURSIVE BitLength(_)
BitLength(n) == IF n = 0 THEN 0 ELSE 1 + BitLength(n \div 2)

RECURSIVE NatBitLengthFrom(_, _)
NatBitLengthFrom(a, k) ==
    IF k = 0 THEN 0
    ELSE IF a[k] # 0 THEN (k - 1) * LimbBits + BitLength(a[k])
    ELSE NatBitLengthFrom(a, k - 1)

\* the number of bits of a, 0 for 0
NatBitLength[a \in Limbs] == NatBitLengthFrom(a, NLimbs)

RECURSIVE NatLowBitsFrom(_, _, _)
NatLowBitsFrom(a, s, k) ==
    IF k > NLimbs THEN <<>>
    ELSE <<IF k <= s \div LimbBits THEN a[k]
           ELSE IF k = s \div LimbBits + 1 THEN a[k] % 2^(s % LimbBits)
           ELSE 0>> \o NatLowBitsFrom(a, s, k + 1)

\* a mod 2^s
NatLowBits[a \in Limbs, s \in Nat] == NatLowBitsFrom(a, s, 1)

RECURSIVE NatShiftRightFrom(_, _, _, _)
NatShiftRightFrom(a, ls, bs, k) ==
    IF k > NLimbs THEN <<>>
    ELSE <<(IF k + ls <= NLimbs THEN a[k + ls] \div 2^bs ELSE 0)
           + (IF k + ls + 1 <= NLimbs
              THEN (a[k + ls + 1] % 2^bs) * 2^(LimbBits - bs)
              ELSE 0)>> \o NatShiftRightFrom(a, ls, bs, k + 1)

\* a div 2^s
NatShiftRight[a \in Limbs, s \in Nat] ==
    NatShiftRightFrom(a, s \div LimbBits, s % LimbBits, 1)

\* bit s of a, bit 0 the least significant
NatBit[a \in Limbs, s \in Nat] ==
    (a[s \div LimbBits + 1] \div 2^(s % LimbBits)) % 2

\* a small natural number out of its limbs
NatToInt[a \in Limbs] == a[1] + a[2] * LimbBase

\* the multiple of 2^s nearest to a + f, where 0 <= f < 1 and inexact
\* tells whether f > 0; a tie goes to the even multiple (s >= 1)
NatRoundAt[a \in Limbs, s \in Nat, inexact \in BOOLEAN] ==
    LET low == NatLowBits[a, s]
        c == NatCmp[low, NatPow2[s - 1]]
        down == NatSub[a, low]
        up == c > 0 \/ (c = 0 /\ (inexact \/ NatBit[a, s] = 1))
    IN  IF up THEN NatAdd[down, NatPow2[s]] ELSE down

\* a + f rounded to MantissaBits significant bits
RoundToMantissa[a \in Limbs, inexact \in BOOLEAN] ==
    LET s == NatBitLength[a] - MantissaBits
    IN  IF s <= 0 THEN a ELSE NatRoundAt[a, s, inexact]

----------------------------------------------------------------------------
(* Floats *)

\* the values of the model that stand for floats
Floats == [neg : BOOLEAN, mag : Limbs]

\* the float of a sign and a magnitude; zero has no sign
Float[neg \in BOOLEAN, mag \in Limbs] ==
    [neg |-> neg /\ mag # NatZero, mag |-> mag]

Zero == Float[FALSE, NatZero]

\* x + y computed exactly
ExactAdd[x \in Floats, y \in Floats] ==
    IF x.neg = y.neg THEN Float[x.neg, NatAdd[x.mag, y.mag]]
    ELSE IF NatCmp[x.mag, y.mag] >= 0 THEN Float[x.neg, NatSub[x.mag, y.mag]]
    ELSE Float[y.neg, NatSub[y.mag, x.mag]]

\* the float nearest to the exact value x
Rounded[x \in Floats] == Float[x.neg, RoundToMantissa[x.mag, FALSE]]

\* -x
Neg[x \in Floats] == Float[~x.neg, x.mag]

\* x + y
Add[x \in Floats, y \in Floats] == Rounded[ExactAdd[x, y]]

\* x - y
Sub[x \in Floats, y \in Floats] == Rounded[ExactAdd[x, Neg[y]]]

\* x < y
Less[x \in Floats, y \in Floats] ==
    IF x.neg /\ ~y.neg THEN TRUE
    ELSE IF ~x.neg /\ y.neg THEN FALSE
    ELSE IF x.neg THEN NatCmp[x.mag, y.mag] > 0
    ELSE NatCmp[x.mag, y.mag] < 0

\* min(x, y)
Min[x \in Floats, y \in Floats] == IF Less[y, x] THEN y ELSE x

\* the float nearest to mag / d; two more bits of the quotient are kept for
\* the rounding
NearestQuotient[mag \in Limbs, d \in Nat] ==
    LET qr == NatDivSmall[NatMulSmall[mag, 4], d]
    IN  NatShiftRight[RoundToMantissa[qr.q, qr.r # 0], 2]

\* x / n, for an integer n > 0
DivInt[x \in Floats, n \in Nat] == Float[x.neg, NearestQuotient[x.mag, n]]

\* the float nearest to cents / 100: the float of a form amount or of a
\* literal such as 0.01
FromCents[cents \in Nat] ==
    Float[FALSE, NearestQuotient[NatMulSmall[NatPow2[FractionBits], cents], 100]]

\* the hundredths nearest to x >= 0, a tie going to the even number
ToCents[x \in Floats] ==
    LET h == NatMulSmall[x.mag, 100]
        n == NatToInt[NatShiftRight[h, FractionBits]]
        c == NatCmp[NatLowBits[h, FractionBits], NatPow2[FractionBits - 1]]
    IN  IF c > 0 \/ (c = 0 /\ n % 2 = 1) THEN n + 1 ELSE n

\* round(x, 2), for x >= 0
Round2[x \in Floats] == FromCents[ToCents[x]]

\* the literal 0.01 of the calculation functions
Epsilon_Half == DivInt[FromCents[1], 2]

Epsilon == FromCents[1]

Descriptions == {"", "Groceries"}

FormAmounts == 0..MaxCents

----------------------------------------------------------------------------
(* Session state *)

NoSweep == [pc |-> "idle", balances |-> <<>>, debtors |-> <<>>, creditors |-> <<>>,
            i |-> 0, j |-> 0, settlements |-> <<>>, iters |-> 0]

init_session_state ==
    /\ expenses = <<>>
    /\ payments = <<>>

Init ==
    /\ init_session_state
    /\ feedback = "none"
    /\ lastOp = "none"
    /\ sweep = NoSweep

----------------------------------------------------------------------------
(* calculate_balances *)

\* the loop over shared_with (the ticked boxes, in roster order)
RECURSIVE DebitShares(_, _, _, _)
DebitShares(balances, shared_with, split_amount, k) ==
    IF k > Len(ROOMMATES) THEN balances
    ELSE DebitShares(
            IF ROOMMATES[k] \in shared_with
            THEN [balances EXCEPT ![ROOMMATES[k]] = Sub[@, split_amount]]
            ELSE balances,
            shared_with, split_amount, k + 1)

ApplyExpense_SplitAmongAll(balances, expense) ==
    LET amount == FromCents[expense.amount]
        split_amount == DivInt[amount, Len(ROOMMATES)]
    IN  DebitShares([balances EXCEPT ![expense.payer] = Add[@, amount]],
                    expense.shared_with, split_amount, 1)

\* the body of the loop over the expenses
ApplyExpense(balances, expense) ==
    LET amount == FromCents[expense.amount]
        split_amount == DivInt[amount, Cardinality(expense.shared_with)]
    IN  DebitShares([balances EXCEPT ![expense.payer] = Add[@, amount]],
                    expense.shared_with, split_amount, 1)

\* the body of the loop over the payments
ApplyPayment(balances, payment) ==
    LET credited ==
            [balances EXCEPT ![payment.from] = Add[@, FromCents[payment.amount]]]
    IN  [credited EXCEPT ![payment.to] = Sub[@, FromCents[payment.amount]]]

RECURSIVE ProcessExpenses(_, _, _)
ProcessExpenses(balances, E, k) ==
    IF k > Len(E) THEN balances
    ELSE ProcessExpenses(ApplyExpense(balances, E[k]), E, k + 1)

RECURSIVE ProcessPayments(_, _, _)
ProcessPayments(balances, P, k) ==
    IF k > Len(P) THEN balances
    ELSE ProcessPayments(ApplyPayment(balances, P[k]), P, k + 1)

\* {person: 0.0 for person in ROOMMATES}
RECURSIVE ZeroBalances(_)
ZeroBalances(k) ==
    IF k = 1 THEN ROOMMATES[1] :> Zero
    ELSE ZeroBalances(k - 1) @@ (ROOMMATES[k] :> Zero)

calculate_balances(E, P) ==
    ProcessPayments(ProcessExpenses(ZeroBalances(Len(ROOMMATES)), E, 1), P, 1)

----------------------------------------------------------------------------
(* calculate_settlement *)

\* the entries {"name", "amount"} of the people who are owed, in roster order
RECURSIVE Creditors(_, _)
Creditors(balances, k) ==
    IF k > Len(ROOMMATES) THEN <<>>
    ELSE LET person == ROOMMATES[k]
         IN  (IF Less[Epsilon, balances[person]]
              THEN <<[name |-> person, amount |-> balances[person]]>>
              ELSE <<>>) \o Creditors(balances, k + 1)

\* the entries {"name", "amount"} of the people who owe, in roster order
RECURSIVE Debtors(_, _)
Debtors(balances, k) ==
    IF k > Len(ROOMMATES) THEN <<>>
    ELSE LET person == ROOMMATES[k]
         IN  (IF ~Less[Epsilon, balances[person]]
                 /\ Less[balances[person], Neg[Epsilon]]
              THEN <<[name |-> person, amount |-> Neg[balances[person]]]>>
              ELSE <<>>) \o Debtors(balances, k + 1)

\* entry x put into a list already sorted by amount, largest first, after
\* the entries of the same amount
RECURSIVE InsertDescending(_, _)
InsertDescending(sorted, x) ==
    IF sorted = <<>> THEN <<x>>
    ELSE IF ~Less[Head(sorted).amount, x.amount]
         THEN <<Head(sorted)>> \o InsertDescending(Tail(sorted), x)
         ELSE <<x>> \o sorted

\* list.sort(key=amount, reverse=True): stable, largest amount first
RECURSIVE SortDescending(_, _)
SortDescending(list, k) ==
    IF k = 0 THEN <<>>
    ELSE InsertDescending(SortDescending(list, k - 1), list[k])

\* the state of the sweep before its first iteration
StartSweep(balances) ==
    LET creditors == Creditors(balances, 1)
        debtors == Debtors(balances, 1)
    IN  [pc |-> "loop",
         balances |-> balances,
         debtors |-> SortDescending(debtors, Len(debtors)),
         creditors |-> SortDescending(creditors, Len(creditors)),
         i |-> 0, j |-> 0, settlements |-> <<>>, iters |-> 0]

\* the entry appended to settlements
Settlement_Swapped(debtor, creditor, transfer) ==
    [from |-> creditor.name, to |-> debtor.name, amount |-> Round2[transfer]]

Settlement(debtor, creditor, transfer) ==
    [from |-> debtor.name, to |-> creditor.name, amount |-> Round2[transfer]]

\* a pointer after an iteration that left the amount `left` to its entry
Advance_Negative(pointer, left) ==
    IF Less[left, Zero] THEN pointer + 1 ELSE pointer

Advance(pointer, left) ==
    IF Less[left, Epsilon] THEN pointer + 1 ELSE pointer

\* the condition of the while loop
LoopCondition(s) == s.i < Len(s.debtors) /\ s.j < Len(s.creditors)

\* one iteration of the while loop
LoopBody(s) ==
    LET debtor == s.debtors[s.i + 1]
        creditor == s.creditors[s.j + 1]
        transfer == Min[debtor.amount, creditor.amount]
        debtor_left == Sub[debtor.amount, transfer]
        creditor_left == Sub[creditor.amount, transfer]
    IN  [pc |-> "loop",
         balances |-> s.balances,
         debtors |-> [s.debtors EXCEPT ![s.i + 1].amount = debtor_left],
         creditors |-> [s.creditors EXCEPT ![s.j + 1].amount = creditor_left],
         i |-> Advance(s.i, debtor_left),
         j |-> Advance(s.j, creditor_left),
         settlements |->
            IF Less[Epsilon, transfer]
            THEN Append(s.settlements, Settlement(debtor, creditor, transfer))
            ELSE s.settlements,
         iters |-> s.iters + 1]

RECURSIVE RunSweep(_)
RunSweep(s) == IF LoopCondition(s) THEN RunSweep(LoopBody(s)) ELSE s

calculate_settlement(E, P) ==
    RunSweep(StartSweep(calculate_balances(E, P))).settlements

----------------------------------------------------------------------------
(* The forms and the history of main *)

Errors == {"Please enter a description",
           "Amount must be positive",
           "Select at least one person to share this expense",
           "Payer and recipient must be different"}

ExpenseError_AnyAmount(expense_description, expense_amount, shared_with) ==
    IF expense_description = "" THEN "Please enter a description"
    ELSE IF Cardinality(shared_with) = 0
         THEN "Select at least one person to share this expense"
    ELSE "none"

\* the checks of a submitted expense form: the message of st.error, or
\* "none" when the expense is accepted
ExpenseError(expense_description, expense_amount, shared_with) ==
    IF expense_description = "" THEN "Please enter a description"
    ELSE IF expense_amount <= 0 THEN "Amount must be positive"
    ELSE IF Cardinality(shared_with) = 0
         THEN "Select at least one person to share this expense"
    ELSE "none"

\* the checks of a submitted payment form
PaymentError(payment_from, payment_to, payment_amount) ==
    IF payment_from = payment_to THEN "Payer and recipient must be different"
    ELSE IF payment_amount <= 0 THEN "Amount must be positive"
    ELSE "none"

Remove_All(list, x) == SelectSeq(list, LAMBDA y : y # x)

\* list.remove(x): the list without the first entry equal to x
RECURSIVE Remove(_, _)
Remove(list, x) ==
    IF list = <<>> THEN <<>>
    ELSE IF Head(list) = x THEN Tail(list)
    ELSE <<Head(list)>> \o Remove(Tail(list), x)

\* "Add Expense" submitted with the form filled in
SubmitExpense ==
    \E expense_description \in Descriptions, expense_payer \in Roster,
       expense_amount \in FormAmounts, shared_with \in SUBSET Roster :
        LET error == ExpenseError(expense_description, expense_amount, shared_with)
        IN  /\ feedback' = error
            /\ lastOp' = "submit_expense"
            /\ IF error = "none"
               THEN /\ Len(expenses) < MaxExpenses
                    /\ expenses' = Append(expenses,
                          [description |-> expense_description,
                           payer |-> expense_payer,
                           amount |-> expense_amount,
                           shared_with |-> shared_with])
               ELSE expenses' = expenses
            /\ UNCHANGED <<payments, sweep>>

\* "Record Payment" submitted with the form filled in
SubmitPayment ==
    \E payment_from \in Roster, payment_to \in Roster,
       payment_amount \in FormAmounts :
        LET error == PaymentError(payment_from, payment_to, payment_amount)
        IN  /\ feedback' = error
            /\ lastOp' = "submit_payment"
            /\ IF error = "none"
               THEN /\ Len(payments) < MaxPayments
                    /\ payments' = Append(payments,
                          [from |-> payment_from,
                           to |-> payment_to,
                           amount |-> payment_amount])
               ELSE payments' = payments
            /\ UNCHANGED <<expenses, sweep>>

\* "Delete" pressed on the i-th entry of the expense history (newest first)
DeleteExpense ==
    \E i \in 1..Len(expenses) :
        LET exp == expenses[Len(expenses) + 1 - i]
        IN  /\ expenses' = Remove(expenses, exp)
            /\ feedback' = "none"
            /\ lastOp' = "delete_expense"
            /\ UNCHANGED <<payments, sweep>>

\* "Delete" pressed on the i-th entry of the payment history (newest first)
DeletePayment ==
    \E i \in 1..Len(payments) :
        LET pay == payments[Len(payments) + 1 - i]
        IN  /\ payments' = Remove(payments, pay)
            /\ feedback' = "none"
            /\ lastOp' = "delete_payment"
            /\ UNCHANGED <<expenses, sweep>>

Next ==
    \/ SubmitExpense
    \/ SubmitPayment
    \/ DeleteExpense
    \/ DeletePayment

Spec == Init /\ [][Next]_vars

----------------------------------------------------------------------------
(* The calculation functions on their own: calculate_settlement run, one   *)
(* iteration of its loop at a time, on any record lists the forms can      *)
(* build                                                                   *)

ExpenseRecords ==
    [description : Descriptions \ {""}, payer : Roster,
     amount : 1..MaxCents, shared_with : (SUBSET Roster) \ {{}}]

PaymentRecords ==
    {p \in [from : Roster, to : Roster, amount : 1..MaxCents] : p.from # p.to}

ListsUpTo(S, n) == UNION {[1..k -> S] : k \in 0..n}

CalcInit ==
    /\ expenses \in ListsUpTo(ExpenseRecords, MaxExpenses)
    /\ payments \in ListsUpTo(PaymentRecords, MaxPayments)
    /\ feedback = "none"
    /\ lastOp = "none"
    /\ sweep = [NoSweep EXCEPT !.pc = "start"]

\* calculate_settlement is called: the balances, the two lists, the sorts
Start ==
    /\ sweep.pc = "start"
    /\ sweep' = StartSweep(calculate_balances(expenses, payments))
    /\ UNCHANGED <<expenses, payments, feedback, lastOp>>

\* the loop condition holds: one iteration
Iterate ==
    /\ sweep.pc = "loop"
    /\ LoopCondition(sweep)
    /\ sweep' = LoopBody(sweep)
    /\ UNCHANGED <<expenses, payments, feedback, lastOp>>

\* the loop condition fails: return settlements
Return ==
    /\ sweep.pc = "loop"
    /\ ~LoopCondition(sweep)
    /\ sweep' = [sweep EXCEPT !.pc = "done"]
    /\ UNCHANGED <<expenses, payments, feedback, lastOp>>

CalcNext == Start \/ Iterate \/ Return

\* calculate_settlement is sequential code: once called, it takes the next
\* step of its loop
CalcSpec == CalcInit /\ [][CalcNext]_vars /\ WF_vars(Iterate \/ Return)

----------------------------------------------------------------------------
(* Properties of the calculation functions, under CalcSpec: sweep.balances *)
(* is what calculate_balances returned for the stored records, and once    *)
(* sweep.pc = "done", sweep.settlements is what calculate_settlement       *)
(* returns                                                                 *)

\* the float 0.01
Cent == FromCents[1]

Abs[x \in Floats] == Float[FALSE, x.mag]

LessEq[x \in Floats, y \in Floats] == ~Less[y, x]

Calculated == sweep.pc \in {"loop", "done"}

Returned == sweep.pc = "done"

\* the exact sum of the balances of the roster
RECURSIVE SumBalances(_, _)
SumBalances(balances, k) ==
    IF k > Len(ROOMMATES) THEN Zero
    ELSE ExactAdd[balances[ROOMMATES[k]], SumBalances(balances, k + 1)]

\* the exact sum of the amounts of the records of a list
RECURSIVE SumAmounts(_)
SumAmounts(list) ==
    IF list = <<>> THEN Zero
    ELSE ExactAdd[FromCents[Head(list).amount], SumAmounts(Tail(list))]

\* the exact sum of the amounts of the settlements s with s[side] = person
RECURSIVE SumSettlements(_, _, _)
SumSettlements(S, side, person) ==
    IF S = <<>> THEN Zero
    ELSE ExactAdd[IF Head(S)[side] = person THEN Head(S).amount ELSE Zero,
                  SumSettlements(Tail(S), side, person)]

\* C1 as claimed: whatever expenses and payments are stored, the balances
\* calculate_balances returns sum to exactly zero.
C1_SumExactlyZero == Calculated => SumBalances(sweep.balances, 1) = Zero

\* C1 as amended: the balances sum to zero up to the rounding of the float
\* operations: with R records stored, of amounts that total T, and a roster
\* of N, |sum of the balances| <= R * (N + 2) * 2^-MantissaBits * T (a record
\* takes at most N + 2 rounded operations, each on a value of at most T).
C1_SumWithinTolerance ==
    Calculated =>
        LET R == Len(expenses) + Len(payments)
            T == ExactAdd[SumAmounts(expenses), SumAmounts(payments)]
            tolerance == NatShiftRight[
                            NatMulSmall[T.mag, R * (Len(ROOMMATES) + 2)],
                            MantissaBits]
        IN  NatCmp[SumBalances(sweep.balances, 1).mag, tolerance] <= 0

\* an expense shared by three and a payment are stored, and the balances do
\* not sum to zero
C1_Witness ==
    /\ Calculated
    /\ \E k \in 1..Len(expenses) : Cardinality(expenses[k].shared_with) = 3
    /\ Len(payments) > 0
    /\ SumBalances(sweep.balances, 1) # Zero

\* C2: for every debtor (balance < -0.01) the settlements it pays sum to its
\* debt within 0.01, and for every creditor (balance > 0.01) the settlements
\* it receives sum to its credit within 0.01.
C2_SettlementCorrect ==
    Returned =>
        \A person \in Roster :
            LET balance == sweep.balances[person]
                paid == SumSettlements(sweep.settlements, "from", person)
                received == SumSettlements(sweep.settlements, "to", person)
            IN  /\ Less[balance, Neg[Cent]] =>
                      LessEq[Abs[ExactAdd[paid, balance]], Cent]
                /\ Less[Cent, balance] =>
                      LessEq[Abs[ExactAdd[received, Neg[balance]]], Cent]

\* the settlements of a plan, recorded as payments
RECURSIVE AsPayments(_)
AsPayments(S) ==
    IF S = <<>> THEN <<>>
    ELSE <<[from |-> Head(S).from, to |-> Head(S).to,
            amount |-> ToCents[Head(S).amount]]>> \o AsPayments(Tail(S))

\* C3: once every suggested settlement is recorded as a payment, every
\* balance is within 0.01 of zero.
C3_PlanSettlesAll ==
    Returned =>
        LET settled == calculate_balances(expenses,
                                          payments \o AsPayments(sweep.settlements))
        IN  \A person \in Roster : LessEq[Abs[settled[person]], Cent]

Reorderings(list) ==
    {[k \in 1..Len(list) |-> list[f[k]]] :
        f \in {g \in [1..Len(list) -> 1..Len(list)] :
                  \A a, b \in 1..Len(list) : g[a] = g[b] => a = b}}

\* C4: the balances do not depend on the order of the stored expenses nor
\* on the order of the stored payments.
C4_OrderIndependent ==
    Returned =>
        \A E \in Reorderings(expenses), P \in Reorderings(payments) :
            calculate_balances(E, P) = sweep.balances

\* C6: a payment of A from X to Y followed by an expense of A paid by Y and
\* shared by X alone leaves every balance as it was before the two.
C6_NoOp ==
    Returned =>
        \A X \in Roster, Y \in Roster, A \in 1..MaxCents :
            X # Y =>
                calculate_balances(
                    Append(expenses, [description |-> "Groceries", payer |-> Y,
                                      amount |-> A, shared_with |-> {X}]),
                    Append(payments, [from |-> X, to |-> Y, amount |-> A]))
                = sweep.balances

\* C7: when no balance is above 0.01 and none is below -0.01, the plan is
\* empty.
C7_EmptyPlan ==
    Returned =>
        ((\A person \in Roster :
              /\ LessEq[sweep.balances[person], Cent]
              /\ LessEq[Neg[Cent], sweep.balances[person]])
            => sweep.settlements = <<>>)

\* somebody is owed 0.01, somebody owes 0.01, nobody more, and nothing is
\* suggested
C7_Witness ==
    /\ Returned
    /\ \E person \in Roster : sweep.balances[person] = Cent
    /\ \E person \in Roster : sweep.balances[person] = Neg[Cent]
    /\ \A person \in Roster : LessEq[Abs[sweep.balances[person]], Cent]
    /\ sweep.settlements = <<>>

\* C10: every settlement goes from somebody whose balance is below -0.01 to
\* somebody whose balance is above 0.01, the two differ and the amount is
\* positive; nobody pays in one settlement and receives in another.
C10_SettlementShape ==
    Returned =>
        LET S == sweep.settlements
        IN  /\ \A k \in 1..Len(S) :
                  /\ S[k].from \in Roster
                  /\ S[k].to \in Roster
                  /\ Less[sweep.balances[S[k].from], Neg[Cent]]
                  /\ Less[Cent, sweep.balances[S[k].to]]
                  /\ S[k].from # S[k].to
                  /\ Less[Zero, S[k].amount]
            /\ \A k, l \in 1..Len(S) : S[k].from # S[l].to

\* a plan of two settlements, paid by two people
C10_Witness ==
    /\ Returned
    /\ Len(sweep.settlements) = 2
    /\ sweep.settlements[1].from # sweep.settlements[2].from

\* C8 as claimed: the loop ends after at most |debtors| + |creditors| - 1
\* iterations, one of the two pointers at the end of its list.
C8_IterationBound ==
    Returned =>
        /\ sweep.iters <= Len(sweep.debtors) + Len(sweep.creditors) - 1
        /\ sweep.i = Len(sweep.debtors) \/ sweep.j = Len(sweep.creditors)

\* an iteration of the loop is taken
IterationStep == sweep.pc = "loop" /\ sweep'.pc = "loop"

\* C8 as amended: every iteration starts with both pointers inside their
\* lists and moves i or j forward by one (or both); once called, the
\* function returns, after at most |debtors| + |creditors| - 1 iterations of
\* the loop, or after none when that is below zero (both lists empty), with
\* one of the two pointers at the end of its list.
C8_Termination ==
    /\ [][IterationStep =>
            /\ sweep.i < Len(sweep.debtors) /\ sweep.j < Len(sweep.creditors)
            /\ sweep'.i \in {sweep.i, sweep.i + 1}
            /\ sweep'.j \in {sweep.j, sweep.j + 1}
            /\ sweep'.i + sweep'.j > sweep.i + sweep.j
            /\ sweep'.iters = sweep.iters + 1]_vars
    /\ [](Returned =>
            /\ sweep.iters <= Len(sweep.debtors) + Len(sweep.creditors) - 1
               \/ sweep.iters = 0
            /\ sweep.i = Len(sweep.debtors) \/ sweep.j = Len(sweep.creditors))
    /\ Calculated ~> Returned

\* two debtors paid one creditor in two iterations, the second of which
\* moved both pointers
C8_Witness ==
    /\ Returned
    /\ Len(sweep.debtors) = 2
    /\ Len(sweep.creditors) = 1
    /\ sweep.iters = 2
    /\ sweep.i = 2
    /\ sweep.j = 1

----------------------------------------------------------------------------
(* Properties of the forms and the history, under Spec *)

StoredRecordsValid ==
    /\ \A k \in 1..Len(expenses) :
          /\ expenses[k].description # ""
          /\ expenses[k].amount > 0
          /\ expenses[k].shared_with # {}
          /\ expenses[k].shared_with \subseteq Roster
          /\ expenses[k].payer \in Roster
    /\ \A k \in 1..Len(payments) :
          /\ payments[k].amount > 0
          /\ payments[k].from # payments[k].to
          /\ payments[k].from \in Roster
          /\ payments[k].to \in Roster

\* C5: a submission that fails a check (it shows one of the error messages)
\* leaves both record lists as they were; so every stored expense has an
\* amount above zero and a non-empty shared_with within the roster, and
\* every stored payment an amount above zero and from # to.
C5_Validation ==
    /\ [][feedback' \in Errors => UNCHANGED <<expenses, payments>>]_vars
    /\ []StoredRecordsValid

\* a payment form was rejected while records of both kinds are stored
C5_Witness ==
    /\ lastOp = "submit_payment"
    /\ feedback = "Payer and recipient must be different"
    /\ Len(expenses) > 0
    /\ Len(payments) > 0

\* `after` is `before` without one of its entries, the others in place
WithoutOneEntry(after, before) ==
    \E k \in 1..Len(before) :
        after = SubSeq(before, 1, k - 1) \o SubSeq(before, k + 1, Len(before))

====
